---- MODULE Spec2Model ----
(***************************************************************************)
(* VerticalPicker (src/src/components/VerticalPicker.tsx): a React         *)
(* component that keeps a scroll surface, a debounced "settle" and an      *)
(* externally owned selectedValue in step.                                 *)
(*                                                                         *)
(* Encoding.  Picker values are JavaScript strings or numbers compared     *)
(* with ===; here every value is a string (a number n is its decimal       *)
(* numeral), the string "-" is the string the component uses as sentinel,  *)
(* and null is the string Null, which is not a member of Domain.  Display  *)
(* indices are 0-based as in the source; At(seq, i) reads index i.         *)
(*                                                                         *)
(* WeeklyTriggerTrends (src/src/components/WeeklyTriggerTrends.tsx): the   *)
(* effect that, on mount, loads the stored migraines and sets weeklyData.  *)
(* A stored text is a sequence of JSON tokens (commas and white space left *)
(* out), numbers with one decimal are counted in tenths.                   *)
(***************************************************************************)
EXTENDS Integers, Sequences, FiniteSets

VARIABLES
  mounted,        \* the component is mounted (scrollRef.current is non-null)
  values,         \* props.values as of the last committed render
  selectedValue,  \* props.selectedValue as of the last committed render
  allValues,      \* the display sequence computed by the last render
  isScrolling,    \* the useState flag (latest value given to setIsScrolling)
  renderPending,  \* a state update is queued and React has not re-rendered yet
  scrollTop,      \* the scroll surface's offset
  scrollEvt,      \* origin of the 'scroll' event the platform has queued, or NoOrigin
  anim,           \* target of the smooth scroll in progress, or NoAnim
  animBy,         \* origin of the smooth scroll in progress, or NoOrigin
  timers,         \* ids of the timeouts that are pending
  scrollTimeout,  \* the effect closure's scrollTimeout variable (0: unset)
  armedBy,        \* observation: origin of the event that armed the pending timeout
  evtOffset,      \* observation: scrollTop when the onScroll that armed it ran
  burst,          \* observation: scroll events and settles of the burst being debounced
  ev,             \* observation: what the last step did
  trends          \* WeeklyTriggerTrends: its stores, its clock, its state

vars == <<mounted, values, selectedValue, allValues, isScrolling, renderPending,
          scrollTop, scrollEvt, anim, animBy, timers, scrollTimeout, armedBy,
          evtOffset, burst, ev, trends>>

\* The picker's variables.
pickerVars == <<mounted, values, selectedValue, allValues, isScrolling, renderPending,
                scrollTop, scrollEvt, anim, animBy, timers, scrollTimeout, armedBy,
                evtOffset, burst, ev>>

\* ------------------------------------------------------------------ bounds

\* Longest list of values the parent passes.
MaxLen == 2

\* Most timeouts that can be pending at once (the code keeps at most one).
MaxTimers == 2

\* Grid of the offsets a user gesture or a frame of a smooth scroll stops at.
ScrollStep == 32

\* Longest stored text, in tokens.
MaxText == 3

\* --------------------------------------------------------------- constants

itemHeight == 32

\* offsetHeight of the scroll container: h-full of the h-24 (6rem) box.
containerHeight == 96

paddingTop == 36

paddingBottom == 36

Sentinel == "-"

Null == "null"

NoCb == "none"

NoAnim == 0 - 1

NoReq == 0 - 1

\* Origins of a change of the scroll offset: the user's gesture ("user"), the
\* selectedValue effect after the parent changed selectedValue while nothing
\* was outstanding ("ext"), after the parent took over the value a tap
\* proposed ("tap") and in any other render ("sync"), the smooth scroll of a
\* tap ("tap") and of a settle ("snap"; "snapped" for the frame that reaches
\* the scroll's target), and the layout of a shorter list ("layout").
NoOrigin == "none"

\* The strings and numbers a caller may put in values or in selectedValue.
Domain == {"-", "10", "20"}

\* ----------------------------------------------------------------- helpers

Min(a, b) == IF a < b THEN a ELSE b

Max(a, b) == IF a > b THEN a ELSE b

At(seq, i) == seq[i + 1]

Range(seq) == {seq[k] : k \in 1..Len(seq)}

\* Array.prototype.reverse on a copy.
Reverse(s) == [k \in 1..Len(s) |-> s[Len(s) + 1 - k]]

reversedValuesKeepOrder(vals) == vals

reversedValues(vals) == Reverse(vals)

allValuesOf(vals) == <<Sentinel>> \o reversedValues(vals)

\* Array.prototype.indexOf: the first index holding v, or -1.
indexOf(seq, v) ==
  IF \E k \in 1..Len(seq) : seq[k] = v
  THEN (CHOOSE k \in 1..Len(seq) : seq[k] = v /\ \A j \in 1..(k - 1) : seq[j] # v) - 1
  ELSE 0 - 1

\* Math.round(num / den) for den > 0: floor(num / den + 1/2).
MathRound(num, den) == (2 * num + den) \div (2 * den)

\* Math.round((scrollTop + containerHeight / 2) / itemHeight)
centerIndex(top) == MathRound(2 * top + containerHeight, 2 * itemHeight)

\* Height of the scrolled content: top padding, one button per entry, bottom padding.
contentHeight(n) == paddingTop + n * itemHeight + paddingBottom

\* The largest offset the surface can take (scrollHeight - clientHeight).
maxScrollTop(n) == Max(0, contentHeight(n) - containerHeight)

\* The platform clamps every offset it is given.
clampScroll(o, n) == Max(0, Min(o, maxScrollTop(n)))

\* Every list of distinct Domain members of length at most MaxLen.
ValueLists ==
  UNION {{s \in [1..n -> Domain] : \A a, b \in 1..n : a # b => s[a] # s[b]} : n \in 0..MaxLen}

Selections == Domain \cup {Null}

\* Offsets a user gesture can leave the surface at.
UserOffsets(n) == {o \in 0..maxScrollTop(n) : o % ScrollStep = 0 \/ o = maxScrollTop(n)}

\* What a step with nothing to report leaves in ev.
NoEv == [op |-> "other", idx |-> 0 - 1, cb |-> NoCb, req |-> NoReq, by |-> NoOrigin,
         seen |-> 0, events |-> 0, nth |-> 0]

\* ev of a tap, of a change of selectedValue or of an unmount.
Ev(op, idx, cb, req, by) == [NoEv EXCEPT !.op = op, !.idx = idx, !.cb = cb, !.req = req, !.by = by]

NoBurst == [events |-> 0, settles |-> 0]

\* ---------------------------------------------------- pieces of the handlers

\* handleScroll's and handleItemClick's translation of an entry into the
\* argument of onValueChange.
callbackArgRaw(value) == value

callbackArg(value) == IF value = Sentinel THEN Null ELSE value

\* handleScroll: NoCb when the ref is gone, the index is out of range or the
\* entry is selectedValue; otherwise the argument given to onValueChange.
handleScroll(mnt, top, av, sel) ==
  IF ~mnt THEN NoCb
  ELSE LET index == centerIndex(top)
       IN IF index >= 0 /\ index < Len(av)
          THEN LET value == At(av, index)
               IN IF value # sel THEN callbackArg(value) ELSE NoCb
          ELSE NoCb

syncScrollTopUnguarded(top, sel, av) ==
  clampScroll((IF sel # Null THEN indexOf(av, sel) ELSE 0) * itemHeight, Len(av))

\* The selectedValue effect: the offset it leaves the surface at.
syncScrollTop(top, sel, av) ==
  LET index == IF sel # Null THEN indexOf(av, sel) ELSE 0
  IN IF index # 0 - 1 THEN clampScroll(index * itemHeight, Len(av)) ELSE top

\* Whether the selectedValue effect assigns scrollTop at all.
syncAssigns(sel, av) == (IF sel # Null THEN indexOf(av, sel) ELSE 0) # 0 - 1

\* The render's isSelected of a display entry.
isSelected(value, sel) == (value = Sentinel /\ sel = Null) \/ value = sel

\* onScroll, clearTimeout(scrollTimeout): the timeouts left pending.
onScrollClearedStacked(ts, held) == ts

onScrollCleared(ts, held) == ts \ {held}

\* The effect's cleanup, clearTimeout(scrollTimeout): the timeouts left pending.
cleanupClearedLeak(ts, held) == ts

cleanupCleared(ts, held) == ts \ {held}

\* setTimeout: a fresh timeout id.
FreshId(ts) == CHOOSE id \in 1..MaxTimers : id \notin ts /\ \A j \in 1..(id - 1) : j \in ts

\* No timer, render, scroll event or smooth scroll is outstanding.
Idle == timers = {} /\ ~renderPending /\ scrollEvt = NoOrigin /\ anim = NoAnim

\* ------------------------------------------------- WeeklyTriggerTrends

\* JSON tokens: the brackets, null, and one object of each store's kind.
LB == [t |-> "["]

RB == [t |-> "]"]

JsonNull == [t |-> "null"]

\* new Date(NaN): no month, no year.
InvalidDate == [year |-> 0 - 1, month |-> 0 - 1, day |-> 0 - 1]

\* A MigraineCalendarData object: a severe migraine on 3 November.
CalendarItem == [t |-> "obj", month |-> 10, day |-> 3, severity |-> "severe"]

\* A MigraineReport object of 12 November 2025; its hydration is 0.
StoredReport ==
  [t |-> "obj", date |-> [year |-> 2025, month |-> 10, day |-> 12],
   hydration |-> 0, stress |-> 7, caffeine |-> 2, screenTime |-> 6]

CalendarTokens == {LB, RB, JsonNull, CalendarItem}

ReportTokens == {LB, RB, JsonNull, StoredReport}

\* What localStorage holds under a key: nothing, or a text of the tokens.
Stores(tokens) ==
  {[present |-> FALSE, text |-> <<>>]}
    \cup {[present |-> TRUE, text |-> s] : s \in UNION {[1..n -> tokens] : n \in 0..MaxText}}

\* new Date(): the month the component is mounted in.
Clocks == {[year |-> 2025, month |-> 10], [year |-> 2026, month |-> 10]}

\* Position of the "]" that closes the array opened before position i, d
\* brackets deep; 0 when the text ends first.
RECURSIVE closeAt(_, _, _)
closeAt(s, i, d) ==
  IF i > Len(s) THEN 0
  ELSE IF s[i].t = "[" THEN closeAt(s, i + 1, d + 1)
  ELSE IF s[i].t = "]" THEN (IF d = 1 THEN i ELSE closeAt(s, i + 1, d - 1))
  ELSE closeAt(s, i + 1, d)

\* The JSON values a text is the sequence of, if it is one.
RECURSIVE parseValues(_)
parseValues(s) ==
  IF s = <<>> THEN [ok |-> TRUE, vals |-> <<>>]
  ELSE IF s[1].t = "]" THEN [ok |-> FALSE, vals |-> <<>>]
  ELSE IF s[1].t = "["
    THEN LET c == closeAt(s, 2, 1)
         IN IF c = 0 THEN [ok |-> FALSE, vals |-> <<>>]
            ELSE LET inner == parseValues(SubSeq(s, 2, c - 1))
                     rest == parseValues(SubSeq(s, c + 1, Len(s)))
                 IN IF inner.ok /\ rest.ok
                    THEN [ok |-> TRUE, vals |-> <<[t |-> "arr", items |-> inner.vals]>> \o rest.vals]
                    ELSE [ok |-> FALSE, vals |-> <<>>]
  ELSE LET rest == parseValues(Tail(s))
       IN IF rest.ok THEN [ok |-> TRUE, vals |-> <<s[1]>> \o rest.vals]
          ELSE [ok |-> FALSE, vals |-> <<>>]

\* JSON.parse: the value of a text that is exactly one JSON value; ok is
\* false where it throws a SyntaxError.
JSONparse(s) ==
  LET p == parseValues(s)
  IN IF p.ok /\ Len(p.vals) = 1 THEN [ok |-> TRUE, v |-> p.vals[1]]
     ELSE [ok |-> FALSE, v |-> JsonNull]

\* getItem's result is truthy: the key is stored and its text is not "".
truthy(store) == store.present /\ store.text # <<>>

\* The callback of calendarData.map: the report made from a calendar item.
\* An item that is an array has no month, day or severity.
toReport(item) ==
  IF item.t = "obj"
  THEN [t |-> "obj", date |-> [year |-> 2025, month |-> item.month, day |-> item.day],
        hydration |-> IF item.severity = "severe" THEN 3 ELSE IF item.severity = "moderate" THEN 5 ELSE 7,
        stress |-> IF item.severity = "severe" THEN 8 ELSE IF item.severity = "moderate" THEN 6 ELSE 4,
        caffeine |-> IF item.severity = "severe" THEN 7 ELSE IF item.severity = "moderate" THEN 5 ELSE 4,
        screenTime |-> IF item.severity = "severe" THEN 8 ELSE IF item.severity = "moderate" THEN 6 ELSE 5]
  ELSE [t |-> "obj", date |-> InvalidDate, hydration |-> 7, stress |-> 4, caffeine |-> 4,
        screenTime |-> 5]

\* new Date(report.date)
reportDate(r) == IF r.t = "obj" THEN r.date ELSE InvalidDate

\* Math.ceil(dayOfMonth / 7)
weekNum(r) == (reportDate(r).day + 6) \div 7

\* reports.reduce((sum, r) => sum + (r[field] || 5), 0)
RECURSIVE sumOf(_, _)
sumOf(rs, field) ==
  IF rs = <<>> THEN 0
  ELSE (IF Head(rs)[field] = 0 THEN 5 ELSE Head(rs)[field]) + sumOf(Tail(rs), field)

\* parseFloat((sum / length).toFixed(1)), in tenths.
average(rs, field) == MathRound(10 * sumOf(rs, field), Len(rs))

\* The WeekData of the week w of monthReports.
weekData(monthReports, w) ==
  LET rs == SelectSeq(monthReports, LAMBDA r : weekNum(r) = w)
  IN [week |-> w, hydration |-> average(rs, "hydration"), stress |-> average(rs, "stress"),
      caffeine |-> average(rs, "caffeine"), screenTime |-> average(rs, "screenTime"),
      sleep |-> Min(35 + (w - 1) * 8, 75)]

\* weeklyAverages: one WeekData per week that has a report, sorted by week.
weeklyAverages(monthReports) ==
  LET weeks == {weekNum(monthReports[k]) : k \in 1..Len(monthReports)}
      order == CHOOSE o \in [1..Cardinality(weeks) -> weeks] :
                 \A a, b \in 1..Cardinality(weeks) : a < b => o[a] < o[b]
  IN [k \in 1..Cardinality(weeks) |-> weekData(monthReports, order[k])]

\* processReports: what it gives setWeeklyData (nothing: <<>>), or threw
\* when reading a report that is null throws.
processReports(reports, now) ==
  IF \E k \in 1..Len(reports) : reports[k].t = "null"
  THEN [threw |-> TRUE, weekly |-> <<>>]
  ELSE LET monthReports ==
             SelectSeq(reports, LAMBDA r : reportDate(r).month = now.month
                                           /\ reportDate(r).year = now.year)
       IN IF Len(monthReports) = 0 THEN [threw |-> FALSE, weekly |-> <<>>]
          ELSE [threw |-> FALSE, weekly |-> weeklyAverages(monthReports)]

\* How a block of the effect ends: it returns from the effect ("return"),
\* throws ("threw") or runs to its end ("end"); used is the store whose
\* reports processReports was called with, weekly what setWeeklyData got.
Ends(kind, used, weekly) == [kind |-> kind, used |-> used, weekly |-> weekly]

calendarHasReportsAlways(reports) == TRUE

\* if (reports.length > 0)
calendarHasReports(reports) == Len(reports) > 0

\* The try block of the calendar data.
calendarTry(text, now) ==
  LET calendarData == JSONparse(text)
  IN IF ~calendarData.ok THEN Ends("threw", "none", <<>>)
     ELSE IF calendarData.v.t # "arr" THEN Ends("threw", "none", <<>>)
     ELSE IF \E k \in 1..Len(calendarData.v.items) : calendarData.v.items[k].t = "null"
       THEN Ends("threw", "none", <<>>)
     ELSE LET reports == [k \in 1..Len(calendarData.v.items) |-> toReport(calendarData.v.items[k])]
          IN IF calendarHasReports(reports)
             THEN LET done == processReports(reports, now)
                  IN IF done.threw THEN Ends("threw", "calendar", <<>>)
                     ELSE Ends("return", "calendar", done.weekly)
             ELSE Ends("end", "none", <<>>)

\* The try block of migraine_reports.
reportsTry(text, now) ==
  LET reports == JSONparse(text)
  IN IF ~reports.ok THEN Ends("threw", "none", <<>>)
     ELSE IF reports.v.t = "null" THEN Ends("threw", "none", <<>>)
     ELSE IF reports.v.t = "obj" THEN Ends("threw", "reports", <<>>)
     ELSE IF Len(reports.v.items) = 0 THEN Ends("return", "none", <<>>)
     ELSE LET done == processReports(reports.v.items, now)
          IN IF done.threw THEN Ends("threw", "reports", <<>>)
             ELSE Ends("end", "reports", done.weekly)

\* catch (error) { console.error(...) }: the block ends, nothing is thrown on.
catchError(block) == IF block.kind = "threw" THEN [block EXCEPT !.kind = "end"] ELSE block

\* The effect: what it leaves in weeklyData, which store's reports it gave
\* processReports, the stores whose try block threw, and whether an
\* exception left the effect.
loadEffect(calendar, reports, now) ==
  LET tried == IF truthy(calendar) THEN calendarTry(calendar.text, now)
               ELSE Ends("end", "none", <<>>)
      first == catchError(tried)
      again == IF truthy(reports) THEN reportsTry(reports.text, now)
               ELSE Ends("return", "none", <<>>)
      second == catchError(again)
  IN IF first.kind # "end"
     THEN [weeklyData |-> first.weekly, used |-> first.used,
           caught |-> {}, escaped |-> first.kind = "threw"]
     ELSE [weeklyData |-> second.weekly, used |-> second.used,
           caught |-> {c \in {"calendar"} : tried.kind = "threw"}
                        \cup {c \in {"reports"} : again.kind = "threw"},
           escaped |-> second.kind = "threw"]

\* The component is not on the screen: it has no state.
NoTrends == [pc |-> "unmounted"]

\* ------------------------------------------------------------------- state

\* The state after the first render and its effects.
Init ==
  /\ mounted = TRUE
  /\ values \in ValueLists
  /\ selectedValue \in Selections
  /\ allValues = allValuesOf(values)
  /\ isScrolling = FALSE
  /\ renderPending = FALSE
  /\ scrollTop = syncScrollTop(0, selectedValue, allValues)
  /\ scrollEvt = IF scrollTop # 0 THEN "sync" ELSE NoOrigin
  /\ anim = NoAnim
  /\ animBy = NoOrigin
  /\ timers = {}
  /\ scrollTimeout = 0
  /\ armedBy = NoOrigin
  /\ evtOffset = 0
  /\ burst = NoBurst
  /\ ev = NoEv
  /\ trends = NoTrends

\* A render of the component with the given props, and the effects it runs:
\* both effects depend on allValues, a new array in every render, so both run
\* again: the listener effect's cleanup, the selectedValue effect, the
\* listener effect.  by is the origin the render's repositioning is given.
Commit(sel, vals, by) ==
  \E av \in {allValuesOf(vals)} :
  \E laid \in {clampScroll(scrollTop, Len(av))} :
  \E top \in {syncScrollTop(laid, sel, av)} :
  \E left \in {cleanupCleared(timers, scrollTimeout)} :
  LET keep == ~syncAssigns(sel, av) /\ anim # NoAnim /\ clampScroll(anim, Len(av)) # top
  IN /\ values' = vals
     /\ selectedValue' = sel
     /\ allValues' = av
     /\ renderPending' = FALSE
     /\ timers' = left
     /\ scrollTimeout' = 0
     /\ armedBy' = NoOrigin
     /\ evtOffset' = IF left = {} THEN 0 ELSE evtOffset
     /\ burst' = IF left = {} THEN NoBurst ELSE burst
     /\ scrollTop' = top
     /\ scrollEvt' = IF top # laid THEN by ELSE IF laid # scrollTop THEN "layout" ELSE scrollEvt
     /\ anim' = IF keep THEN clampScroll(anim, Len(av)) ELSE NoAnim
     /\ animBy' = IF keep THEN animBy ELSE NoOrigin

\* React re-renders after setIsScrolling changed the state.
Render ==
  /\ mounted /\ renderPending
  /\ Commit(selectedValue, values, "sync")
  /\ ev' = NoEv
  /\ UNCHANGED <<trends, mounted, isScrolling>>

\* The parent re-renders, and the picker with it, with the props unchanged.
ParentRender ==
  /\ mounted
  /\ Commit(selectedValue, values, "sync")
  /\ ev' = NoEv
  /\ UNCHANGED <<trends, mounted, isScrolling>>

\* The parent renders the picker with another selectedValue.
ParentSet(v) ==
  /\ mounted /\ v # selectedValue
  /\ Commit(v, values, IF ev.op = "tap" /\ ev.cb = v THEN "tap"
                       ELSE IF Idle THEN "ext" ELSE "sync")
  /\ ev' = Ev("set", IF v # Null THEN indexOf(allValues, v) ELSE 0, NoCb, NoReq,
             IF Idle THEN "ext" ELSE "sync")
  /\ UNCHANGED <<trends, mounted, isScrolling>>

\* The parent renders the picker with another list of values.
ParentValues(l) ==
  /\ mounted /\ l # values
  /\ Commit(selectedValue, l, "sync")
  /\ ev' = NoEv
  /\ UNCHANGED <<trends, mounted, isScrolling>>

\* The user drags or flings the surface to another offset.
UserScroll(o) ==
  /\ mounted /\ o # scrollTop
  /\ scrollTop' = o
  /\ scrollEvt' = "user"
  /\ anim' = NoAnim
  /\ animBy' = NoOrigin
  /\ ev' = NoEv
  /\ UNCHANGED <<trends, mounted, values, selectedValue, allValues, isScrolling, renderPending,
                 timers, scrollTimeout, armedBy, evtOffset, burst>>

\* A smooth scroll moves the surface one frame towards its target.
AnimStep(o) ==
  /\ mounted /\ anim # NoAnim
  /\ o = anim \/ (Min(scrollTop, anim) < o /\ o < Max(scrollTop, anim))
  /\ scrollTop' = o
  /\ scrollEvt' = IF o = anim /\ animBy = "snap" THEN "snapped" ELSE animBy
  /\ anim' = IF o = anim THEN NoAnim ELSE anim
  /\ animBy' = IF o = anim THEN NoOrigin ELSE animBy
  /\ ev' = NoEv
  /\ UNCHANGED <<trends, mounted, values, selectedValue, allValues, isScrolling, renderPending,
                 timers, scrollTimeout, armedBy, evtOffset, burst>>

\* The platform dispatches the queued 'scroll' event: onScroll.
onScroll ==
  /\ mounted /\ scrollEvt # NoOrigin
  /\ Cardinality(onScrollCleared(timers, scrollTimeout)) < MaxTimers
  /\ LET id == FreshId(onScrollCleared(timers, scrollTimeout))
     IN /\ timers' = onScrollCleared(timers, scrollTimeout) \cup {id}
        /\ scrollTimeout' = id
  /\ armedBy' = scrollEvt
  /\ scrollEvt' = NoOrigin
  /\ isScrolling' = TRUE
  /\ renderPending' = (renderPending \/ ~isScrolling)
  /\ evtOffset' = scrollTop
  /\ burst' = [events |-> IF scrollTimeout \in timers THEN Min(2, burst.events + 1) ELSE 1,
               settles |-> IF onScrollCleared(timers, scrollTimeout) = {} THEN 0
                           ELSE burst.settles]
  /\ ev' = NoEv
  /\ UNCHANGED <<trends, mounted, values, selectedValue, allValues, scrollTop, anim, animBy>>

\* A pending timeout fires: the settle.  React renders a queued update long
\* before a 100 ms timer set by the same handler can fire.  The callback
\* closes over scrollElement, so it scrolls the element even when the ref is
\* gone.
TimerFire(id) ==
  /\ id \in timers
  /\ mounted => ~renderPending
  /\ LET cb == handleScroll(mounted, scrollTop, allValues, selectedValue)
         index == centerIndex(scrollTop)
         targetScrollTop == index * itemHeight
         to == clampScroll(targetScrollTop, Len(allValues))
         moves == mounted /\ to # scrollTop
     IN /\ timers' = timers \ {id}
        /\ isScrolling' = IF mounted THEN FALSE ELSE isScrolling
        /\ renderPending' = (mounted /\ isScrolling)
        /\ anim' = IF moves THEN to ELSE NoAnim
        /\ animBy' = IF moves THEN "snap" ELSE NoOrigin
        /\ burst' = IF timers \ {id} = {} THEN NoBurst
                     ELSE [burst EXCEPT !.settles = Min(2, burst.settles + 1)]
        /\ ev' = [op |-> "settle", idx |-> index, cb |-> cb, req |-> targetScrollTop,
                  by |-> armedBy, seen |-> evtOffset, events |-> burst.events,
                  nth |-> Min(2, burst.settles + 1)]
  /\ armedBy' = NoOrigin
  /\ evtOffset' = IF timers \ {id} = {} THEN 0 ELSE evtOffset
  /\ UNCHANGED <<trends, mounted, values, selectedValue, allValues, scrollTop, scrollEvt,
                 scrollTimeout>>

\* The user taps the entry at display index i: handleItemClick.
handleItemClick(i) ==
  /\ mounted
  /\ LET value == At(allValues, i)
         index == indexOf(allValues, value)
         scrollPosition == index * itemHeight
         to == clampScroll(scrollPosition, Len(allValues))
     IN /\ anim' = IF to # scrollTop THEN to ELSE NoAnim
        /\ animBy' = IF to # scrollTop THEN "tap" ELSE NoOrigin
        /\ ev' = Ev("tap", i, callbackArg(value), scrollPosition, "user")
  /\ UNCHANGED <<trends, mounted, values, selectedValue, allValues, isScrolling, renderPending,
                 scrollTop, scrollEvt, timers, scrollTimeout, armedBy, evtOffset, burst>>

\* The parent removes the picker: the listener effect's cleanup runs, and the
\* component's state, its props and its scroll element are gone.  ev.idx
\* reports how many timeouts were pending when it ran.
Unmount ==
  /\ mounted
  /\ mounted' = FALSE
  /\ timers' = cleanupCleared(timers, scrollTimeout)
  /\ scrollTimeout' = 0
  /\ armedBy' = NoOrigin
  /\ values' = <<>>
  /\ selectedValue' = Null
  /\ allValues' = allValuesOf(<<>>)
  /\ isScrolling' = FALSE
  /\ renderPending' = FALSE
  /\ scrollTop' = 0
  /\ scrollEvt' = NoOrigin
  /\ anim' = NoAnim
  /\ animBy' = NoOrigin
  /\ evtOffset' = 0
  /\ burst' = NoBurst
  /\ ev' = Ev("unmount", Cardinality(timers), NoCb, NoReq, NoOrigin)
  /\ UNCHANGED trends

Next ==
  \/ Render
  \/ ParentRender
  \/ \E v \in Selections : ParentSet(v)
  \/ \E l \in ValueLists : ParentValues(l)
  \/ \E o \in UserOffsets(Len(allValues)) : UserScroll(o)
  \/ \E o \in UserOffsets(Len(allValues)) \cup {anim} : AnimStep(o)
  \/ onScroll
  \/ \E id \in timers : TimerFire(id)
  \/ \E i \in 0..(Len(allValues) - 1) : handleItemClick(i)
  \/ Unmount

Spec == Init /\ [][Next]_vars

\* What the platform and React do without being asked: React commits a
\* queued render, the platform dispatches a queued scroll event, runs the
\* frames of a smooth scroll and fires a pending timeout.  The user and the
\* parent owe the picker nothing.
Fairness ==
  /\ WF_vars(Render)
  /\ WF_vars(onScroll)
  /\ WF_vars(\E o \in UserOffsets(Len(allValues)) \cup {anim} : AnimStep(o))
  /\ WF_vars(\E id \in timers : TimerFire(id))

FairSpec == Spec /\ Fairness

\* WeeklyTriggerTrends after its first render, which shows weeklyData = []:
\* the effect has not run yet.  The picker is not on the screen.
TrendsInit ==
  /\ mounted = FALSE
  /\ values = <<>>
  /\ selectedValue = Null
  /\ allValues = allValuesOf(<<>>)
  /\ isScrolling = FALSE
  /\ renderPending = FALSE
  /\ scrollTop = 0
  /\ scrollEvt = NoOrigin
  /\ anim = NoAnim
  /\ animBy = NoOrigin
  /\ timers = {}
  /\ scrollTimeout = 0
  /\ armedBy = NoOrigin
  /\ evtOffset = 0
  /\ burst = NoBurst
  /\ ev = NoEv
  /\ \E calendar \in Stores(CalendarTokens), reports \in Stores(ReportTokens), now \in Clocks :
       trends = [pc |-> "rendered", calendar |-> calendar, reports |-> reports, now |-> now,
                 weeklyData |-> <<>>, used |-> "none", caught |-> {}, escaped |-> FALSE,
                 view |-> "empty"]

\* The effect of the mount runs.
LoadEffect ==
  /\ trends.pc = "rendered"
  /\ \E done \in {loadEffect(trends.calendar, trends.reports, trends.now)} :
       trends' = [trends EXCEPT !.pc = IF done.escaped THEN "crashed" ELSE "loaded",
                                !.weeklyData = done.weeklyData, !.used = done.used,
                                !.caught = done.caught, !.escaped = done.escaped]
  /\ UNCHANGED pickerVars

\* React renders the component again after setWeeklyData changed the state.
TrendsRender ==
  /\ trends.pc = "loaded" /\ trends.weeklyData # <<>>
  /\ trends' = [trends EXCEPT !.pc = "shown",
                              !.view = IF Len(trends.weeklyData) = 0 THEN "empty" ELSE "chart"]
  /\ UNCHANGED pickerVars

TrendsNext == LoadEffect \/ TrendsRender

TrendsSpec == TrendsInit /\ [][TrendsNext]_vars

\* ------------------------------------------------------------------ claims

\* The entry at display index i is the current selection: it holds
\* selectedValue, or it is the sentinel entry and selectedValue is null.
IsCurrent(i) == At(allValues, i) = selectedValue \/ (i = 0 /\ selectedValue = Null)

\* The props are as the data model wants them: no caller value is the
\* sentinel string, and selectedValue is null or one of the values.
WellFormedProps ==
  Sentinel \notin Range(values) /\ selectedValue \in Range(values) \cup {Null}

\* C1: debounce.  At most one timeout is pending at any time; every settle
\* is the first one since the scroll events of its burst, so a burst is
\* settled, and its callback made, at most once; and the index a settle
\* computes is the one of the offset the last scroll event saw (of the
\* surface's offset, when the platform has not yet dispatched the event of a
\* later change).
DebounceOneSettle ==
  /\ Cardinality(timers) <= 1
  /\ ev.op = "settle" =>
       /\ ev.nth = 1
       /\ ev.idx = centerIndex(IF scrollEvt # NoOrigin THEN scrollTop ELSE ev.seen)

\* C1 witness: a burst of two scroll events at different offsets, the second
\* before the first one's timeout fired, was settled and the settle made its
\* callback.
DebounceOneSettleWitness ==
  ev.op = "settle" /\ ev.events = 2 /\ ev.nth = 1 /\ ev.cb # NoCb /\ scrollEvt = NoOrigin

\* C2: no feedback loop on external change.  With well-formed props, when
\* the parent sets selectedValue while nothing is outstanding, the offset
\* becomes index * itemHeight, and no settle armed by a scroll event of that
\* repositioning invokes onValueChange.
ExternalChangeNoFeedback ==
  WellFormedProps =>
    /\ (ev.op = "set" /\ ev.by = "ext" /\ ev.idx # 0 - 1) => scrollTop = ev.idx * itemHeight
    /\ (ev.op = "settle" /\ ev.by = "ext") => ev.cb = NoCb

\* C3: tap idempotence.  A tap on the entry that is the current selection
\* invokes no callback.
TapCurrentNoCallback ==
  (ev.op = "tap" /\ IsCurrent(ev.idx)) => ev.cb = NoCb

\* C4: settle idempotence.  A settle never invokes onValueChange with an
\* argument equal to the current selectedValue.
SettleNeverEmitsCurrent ==
  (ev.op = "settle" /\ ev.cb # NoCb) => ev.cb # selectedValue

\* C5: bounds clamping on settle.  With well-formed props, a settle whose
\* computed index is outside the display sequence resolves the entry at the nearest valid index, and
\* emits it when it is not the current selection.
SettleClampsIndex ==
  (mounted /\ WellFormedProps /\ ev.op = "settle" /\ (ev.idx < 0 \/ ev.idx >= Len(allValues))) =>
    LET k == Max(0, Min(ev.idx, Len(allValues) - 1))
    IN ev.cb = IF IsCurrent(k) THEN NoCb ELSE callbackArg(At(allValues, k))

\* C6: tap on a different entry.  With well-formed props, a tap on an entry that is not the current selection invokes the
\* callback with null for the sentinel entry and the entry's value otherwise
\* and requests a scroll to i * itemHeight, and no settle armed by a scroll
\* event of the tap's repositioning invokes the callback.
TapDifferentOneCallback ==
  WellFormedProps =>
    /\ (ev.op = "tap" /\ ~IsCurrent(ev.idx)) =>
         /\ ev.cb = IF ev.idx = 0 THEN Null ELSE At(allValues, ev.idx)
         /\ ev.req = ev.idx * itemHeight
    /\ (ev.op = "settle" /\ ev.by = "tap") => ev.cb = NoCb

\* C7: display sequence construction.  allValues is the sentinel followed by
\* values reversed: its length is len(values) + 1, index 0 holds the sentinel
\* and index k holds values[len(values) - k]; [10,20,30] gives
\* [sentinel,30,20,10] with indexOf(20) = 2, and [] gives [sentinel].
DisplaySequenceConstruction ==
  /\ Len(allValues) = Len(values) + 1
  /\ At(allValues, 0) = Sentinel
  /\ \A k \in 1..Len(values) : At(allValues, k) = At(values, Len(values) - k)
  /\ allValuesOf(<<"10", "20", "30">>) = <<Sentinel, "30", "20", "10">>
  /\ indexOf(allValuesOf(<<"10", "20", "30">>), "20") = 2
  /\ allValuesOf(<<>>) = <<Sentinel>>

\* C7 witness: a list of two values was rendered, last value first.
DisplaySequenceConstructionWitness ==
  /\ mounted /\ Len(values) = 2
  /\ At(allValues, 1) = At(values, 1) /\ At(allValues, 2) = At(values, 0)

\* C8: index/value round trip with a distinct sentinel.  indexOf(valueAt(i))
\* is i for every display index, valueAt(indexOf(v)) is v for every entry, no
\* caller value equals the sentinel, and a tap or settle that resolves an
\* entry past index 0 never emits null.
RoundTripDistinctSentinel ==
  /\ \A i \in 0..(Len(allValues) - 1) : indexOf(allValues, At(allValues, i)) = i
  /\ \A v \in Range(allValues) : At(allValues, indexOf(allValues, v)) = v
  /\ Sentinel \notin Range(values)
  /\ (ev.op \in {"tap", "settle"} /\ ev.idx >= 1) => ev.cb # Null

\* C9: no callback after disposal.  Once the picker is unmounted no timeout
\* is pending, so no settle runs, no callback is made and no corrective
\* scroll is issued.
NoSettleAfterUnmount ==
  ~mounted => (timers = {} /\ ev.op # "settle" /\ ev.cb = NoCb /\ ev.req = NoReq)

\* C9 witness: the picker was unmounted while a timeout was pending.
NoSettleAfterUnmountWitness ==
  ~mounted /\ ev.op = "unmount" /\ ev.idx = 1

\* C10: empty value list.  While values is empty the display sequence has
\* length 1 and every callback carries null.
EmptyValuesOnlyNull ==
  Len(values) = 0 => (Len(allValues) = 1 /\ ev.cb \in {NoCb, Null})

\* C10 witness: with values empty, the one entry was tapped and null emitted.
EmptyValuesOnlyNullWitness ==
  mounted /\ Len(values) = 0 /\ ev.op = "tap" /\ ev.cb = Null

\* A step that renders the picker and runs its effects.
RenderStep ==
  Render \/ ParentRender \/ ParentSet(selectedValue') \/ ParentValues(values')

\* C11: lookup failure is absorbed.  A render whose selectedValue is non-null
\* and not in the display sequence leaves the offset where the layout put it
\* (the offset before the render, cut to the content's extent) and invokes
\* no callback.
LookupFailureAbsorbed ==
  [][(selectedValue' # Null /\ indexOf(allValues', selectedValue') = 0 - 1 /\ RenderStep)
       => (scrollTop' = clampScroll(scrollTop, Len(allValues')) /\ ev'.cb = NoCb)]_vars

\* C11 witness: the parent set a selectedValue that is not in the display
\* sequence while the surface was away from offset 0, and it stayed there.
LookupFailureAbsorbedWitness ==
  /\ mounted /\ selectedValue # Null /\ indexOf(allValues, selectedValue) = 0 - 1
  /\ ev.op = "set" /\ ev.idx = 0 - 1 /\ scrollTop # 0

\* The display indices whose entry the last render marked selected.
SelectedEntries == {i \in 0..(Len(allValues) - 1) : isSelected(At(allValues, i), selectedValue)}

\* C12: visual selection.  In every rendered state whose selectedValue is
\* null or one of the (unique) values, exactly one display entry is marked
\* selected: the sentinel entry for null, the entry at indexOf(selectedValue)
\* otherwise.
VisualSelectionUnique ==
  (mounted /\ (selectedValue = Null \/ selectedValue \in Range(values))) =>
    SelectedEntries = {IF selectedValue = Null THEN 0 ELSE indexOf(allValues, selectedValue)}

\* C13: origin guard.  With well-formed props, no scroll event of a change
\* of the offset the component itself made (the reposition after an external
\* change, the corrective scroll of a settle or of a tap) arms the debounce
\* timeout or sets isScrolling: only the events of a user's scroll do.
OriginGuard ==
  WellFormedProps => armedBy \notin {"ext", "snap", "snapped", "tap"}

\* onScroll has run, isScrolling is true and its timeout is pending, and no
\* scroll event and no smooth scroll is outstanding.
Unsettled ==
  mounted /\ isScrolling /\ scrollTimeout \in timers /\ scrollEvt = NoOrigin /\ anim = NoAnim

\* C14: settle liveness.  Once a scroll event has left isScrolling true with
\* its timeout pending, then, unless a further scroll event arrives or the
\* picker is unmounted, the settle runs and isScrolling becomes false again,
\* whatever re-renders come in between.
SettleLiveness ==
  Unsettled ~> (~isScrolling \/ scrollEvt # NoOrigin \/ ~mounted)

\* C15: corrective scroll target.  With well-formed props, the scroll a
\* settle requests is to k * itemHeight for the index k it resolved, and k is
\* an index of the display sequence.
SettleTargetsValidIndex ==
  (mounted /\ WellFormedProps /\ ev.op = "settle") =>
    (ev.req = ev.idx * itemHeight /\ ev.idx \in 0..(Len(allValues) - 1))

\* C16: offset/index consistency.  For every index i of the display
\* sequence, the settle's index formula applied to the offset i * itemHeight
\* that the selectedValue effect assigns for i gives i again.
SettleInvertsSyncOffset ==
  \A i \in 0..(Len(allValues) - 1) : centerIndex(i * itemHeight) = i

\* C17: settle is a fixpoint.  With well-formed props, when the corrective
\* scroll of a settle has brought the surface to its target t = k * itemHeight
\* and the scroll event of its arrival arms a further settle with the surface
\* still at t, that settle resolves k again, invokes no callback and requests
\* a scroll to t again.
SettleIsFixpoint ==
  (/\ mounted /\ WellFormedProps
   /\ ev.op = "settle" /\ ev.by = "snapped"
   /\ scrollEvt = NoOrigin /\ scrollTop = ev.seen /\ scrollTop % itemHeight = 0)
    => (ev.idx * itemHeight = scrollTop /\ ev.req = scrollTop /\ ev.cb = NoCb)

\* C18: reposition only on change.  A re-render with selectedValue and the
\* values unchanged (the one setIsScrolling causes, or one of the parent's)
\* leaves the scroll offset as it is.
RepositionOnlyOnChange ==
  [][(WellFormedProps /\ (Render \/ ParentRender)) => scrollTop' = scrollTop]_vars

\* C19: every entry is selectable by scrolling.  For every index i of the
\* display sequence there is an offset between 0 and the content's largest
\* offset at which the settle's index formula gives i.
EveryEntryScrollable ==
  \A i \in 0..(Len(allValues) - 1) :
    \E o \in 0..maxScrollTop(Len(allValues)) : centerIndex(o) = i

\* The effect of WeeklyTriggerTrends has run.
Loaded == trends.pc \in {"loaded", "shown", "crashed"}

\* The store's text is JSON of an array: the array's elements.
StoredList(store) ==
  IF truthy(store) /\ JSONparse(store.text).ok /\ JSONparse(store.text).v.t = "arr"
  THEN JSONparse(store.text).v.items
  ELSE <<>>

\* The store's text is JSON of an array with an element, none of them null.
HoldsEntries(store) ==
  StoredList(store) # <<>> /\ \A k \in 1..Len(StoredList(store)) : StoredList(store)[k].t # "null"

\* JSON.parse was called on the store's text and threw.
ParseFailed(store, name) ==
  truthy(store) /\ ~JSONparse(store.text).ok /\ name \in trends.caught

\* C20, as stated: once the effect has run, reports of the calendar data
\* were used if that data parses to a non-empty list; migraine_reports were
\* processed instead if it is absent, fails to parse or is an empty list; and
\* after a parse failure of either store no exception has left the effect
\* and weeklyData is empty.
TrendsSourceAndFallback ==
  Loaded =>
    /\ StoredList(trends.calendar) # <<>> => trends.used = "calendar"
    /\ StoredList(trends.calendar) = <<>> =>
         /\ trends.used # "calendar"
         /\ HoldsEntries(trends.reports) => trends.used = "reports"
    /\ (ParseFailed(trends.calendar, "calendar") \/ ParseFailed(trends.reports, "reports")) =>
         (~trends.escaped /\ trends.weeklyData = <<>>)

\* C20, amended: once the effect has run, no exception has left it; reports of
\* the calendar data were used, and migraine_reports not read, if that data
\* parses to a non-empty list without a null element; otherwise
\* migraine_reports were processed if they hold a non-empty list without a
\* null element, and nothing was processed if they are absent, fail to
\* parse or hold an empty list; after a parse failure of migraine_reports
\* weeklyData is empty, and after a parse failure of the calendar data it is
\* what migraine_reports give.
TrendsSourceAndFallbackAmended ==
  Loaded =>
    /\ ~trends.escaped
    /\ HoldsEntries(trends.calendar) =>
         (trends.used = "calendar" /\ trends.caught = {})
    /\ ~HoldsEntries(trends.calendar) =>
         /\ trends.used # "calendar"
         /\ HoldsEntries(trends.reports) =>
              /\ trends.used = "reports"
              /\ trends.weeklyData = processReports(StoredList(trends.reports), trends.now).weekly
         /\ StoredList(trends.reports) = <<>> =>
              (trends.weeklyData = <<>> /\ trends.used \in {"none", "reports"})
    /\ ParseFailed(trends.reports, "reports") =>
         (trends.weeklyData = <<>> /\ trends.used = "none")
    /\ ParseFailed(trends.calendar, "calendar") =>
         trends.weeklyData =
           IF HoldsEntries(trends.reports)
           THEN processReports(StoredList(trends.reports), trends.now).weekly
           ELSE <<>>

\* C20 witness: the calendar data failed to parse, migraine_reports were
\* processed instead and gave this month's weekly data.
TrendsSourceAndFallbackWitness ==
  /\ Loaded /\ ParseFailed(trends.calendar, "calendar")
  /\ trends.used = "reports" /\ trends.weeklyData # <<>> /\ trends.view = "chart"

====
